---- MODULE Spec2Model ----
(***************************************************************************)
(* A state-machine model of py-graph (src/Graph.py): the Factory's two     *)
(* registries, the _Entity and _Constraint objects it creates, and one     *)
(* Graph built on that Factory.  Objects are identified by their creation  *)
(* index; None is 0.  Every public call is one action; a call that raises  *)
(* keeps the mutations made before the raise and records the exception     *)
(* class in last.err.                                                      *)
(***************************************************************************)
EXTENDS Integers, Sequences, FiniteSets, TLC

VARIABLES entity_map, constraint_map, entities, constraints,
          g_entities, g_constraints, last, fired, run, calls

vars == <<entity_map, constraint_map, entities, constraints,
          g_entities, g_constraints, last, fired, run, calls>>

\* ---------------------------------------------------------------- bounds
\* How many _Entity objects are ever created.
MaxEntities == 2
\* How many _Constraint objects are ever created.
MaxConstraints == 1
\* How long an entity's constraints list may grow.
MaxLinks == 2
\* How many key/value pairs a create_entity source mapping holds.
MaxSource == 2
\* How many calls a run makes.
MaxCalls == 6
\* Where the count of callbacks in one run of checks stops counting.
MaxFires == 2

\* ---------------------------------------------------------------- domains
None == 0
Ok == "none"

Idents == {"subject", "person"}
CIdents == {"name_is"}
Keys == {"name", "units", "identifier"}

\* Values carry their exact Python type: two strings and one int.
Values == {[t |-> "str", v |-> "A"], [t |-> "str", v |-> "B"], [t |-> "int", v |-> "1"]}
StrA == [t |-> "str", v |-> "A"]
NoValue == [t |-> "NoneType", v |-> "None"]
TypeOf(value) == value.t

\* A dict is a function whose DOMAIN is its key set.
EmptyDict == [x \in {} |-> NoValue]
Put(d, k, v) == [x \in DOMAIN d \cup {k} |-> IF x = k THEN v ELSE d[x]]

\* The attribute maps the callers register.
SubjectMap == [x \in {"name", "units"} |-> IF x = "name" THEN "str" ELSE "int"]
PersonMap == [x \in {"name", "identifier"} |-> "str"]
Schemas == {SubjectMap, PersonMap}

\* The clauses the callers pass: each reads one attribute of the entity.
Clauses == {"name_is_A"}

\* The names _Entity.__setattr__ refuses to assign.
protected == {"constraints", "identifier", "attribute_map"}

\* ---------------------------------------------------------------- _Entity
\* _Entity.__init__: no attributes stored, no constraints.
NewEntity(identifier, attribute_map) ==
    [identifier |-> identifier, attribute_map |-> attribute_map,
     dict |-> EmptyDict, constraints |-> <<>>]

\* A __setattr__ without the type comparison.
SetAttrNoTypeCheck(ent, key, value) ==
    IF key \in protected \/ key \notin DOMAIN ent.attribute_map
      THEN [err |-> "AttributeError", ent |-> ent]
      ELSE [err |-> Ok, ent |-> [ent EXCEPT !.dict = Put(ent.dict, key, value)]]

\* A __setattr__ that stores the value before it compares the types.
SetAttrStoreThenCheck(ent, key, value) ==
    IF key \in protected \/ key \notin DOMAIN ent.attribute_map
      THEN [err |-> "AttributeError", ent |-> ent]
    ELSE IF TypeOf(value) # ent.attribute_map[key]
      THEN [err |-> "TypeError", ent |-> [ent EXCEPT !.dict = Put(ent.dict, key, value)]]
    ELSE [err |-> Ok, ent |-> [ent EXCEPT !.dict = Put(ent.dict, key, value)]]

\* _Entity.__setattr__ (and __setitem__, which forwards to it): the
\* exception raised, or Ok with the value stored.
SetAttr(ent, key, value) ==
    IF key \in protected
      THEN [err |-> "AttributeError", ent |-> ent]
    ELSE IF key \notin DOMAIN ent.attribute_map
      THEN [err |-> "AttributeError", ent |-> ent]
    ELSE IF TypeOf(value) # ent.attribute_map[key]
      THEN [err |-> "TypeError", ent |-> ent]
    ELSE [err |-> Ok, ent |-> [ent EXCEPT !.dict = Put(ent.dict, key, value)]]

\* _Entity.__getitem__: object.__getattribute__ finds the three fields set
\* by __init__ and whatever __setattr__ stored; anything else raises.
GetItem(ent, item) ==
    IF item = "identifier" THEN [err |-> Ok, val |-> [t |-> "str", v |-> ent.identifier]]
    ELSE IF item = "attribute_map" THEN [err |-> Ok, val |-> [t |-> "dict", v |-> "attribute_map"]]
    ELSE IF item = "constraints" THEN [err |-> Ok, val |-> [t |-> "list", v |-> "constraints"]]
    ELSE IF item \in DOMAIN ent.dict THEN [err |-> Ok, val |-> ent.dict[item]]
    ELSE [err |-> "AttributeError", val |-> NoValue]

\* Attribute-style read entity.<item>, as a clause does it: a stored value
\* is returned; otherwise __getattr__ runs, where the name `protected` is
\* unbound (NameError) and a declared but unset item is a KeyError.
GetAttr(ent, item) ==
    IF GetItem(ent, item).err = Ok THEN GetItem(ent, item)
    ELSE IF item \notin DOMAIN ent.attribute_map THEN [err |-> "NameError", val |-> NoValue]
    ELSE [err |-> "KeyError", val |-> NoValue]

\* ---------------------------------------------------------------- _Constraint
\* _Constraint.__init__: unlinked and not satisfied.
NewConstraint(identifier, clause) ==
    [identifier |-> identifier, clause |-> clause, satisfied |-> FALSE, entity |-> None]

\* The clause called on an entity: entity.name == "A".
ClauseResult(clause, ent) ==
    IF GetAttr(ent, "name").err # Ok
      THEN [err |-> GetAttr(ent, "name").err, val |-> FALSE]
      ELSE [err |-> Ok, val |-> (GetAttr(ent, "name").val = StrA)]

\* A level-triggered setter: the callback runs on every assignment.
LevelSetSatisfied(con, c, value, log) ==
    [con |-> [con EXCEPT !.satisfied = value], log |-> Append(log, <<"cb", c, value>>)]

\* The satisfied setter: edge-triggered.  log is the trace of the current
\* call so far; a callback invocation is recorded as <<"cb", c, value>>.
SetSatisfied(con, c, value, log) ==
    IF con.satisfied # value
      THEN [con |-> [con EXCEPT !.satisfied = value], log |-> Append(log, <<"cb", c, value>>)]
      ELSE [con |-> con, log |-> log]

\* A check that notifies on every evaluation.
CheckAlwaysNotify(con, c, ents, log) ==
    IF con.entity = None
      THEN [err |-> "Warning", con |-> con, log |-> log]
    ELSE IF ClauseResult(con.clause, ents[con.entity]).err # Ok
      THEN [err |-> ClauseResult(con.clause, ents[con.entity]).err, con |-> con, log |-> log]
    ELSE LET val == ClauseResult(con.clause, ents[con.entity]).val
         IN [err |-> Ok, con |-> [con EXCEPT !.satisfied = val],
             log |-> log \o <<<<"check", c, val>>, <<"cb", c, val>>>>]

\* A check that takes an unlinked constraint for a failed one instead of
\* raising.
CheckUnlinkedAsFailed(con, c, ents, log) ==
    IF con.entity = None
      THEN [err |-> Ok, con |-> SetSatisfied(con, c, FALSE, log).con,
            log |-> SetSatisfied(con, c, FALSE, log).log]
    ELSE IF ClauseResult(con.clause, ents[con.entity]).err # Ok
      THEN [err |-> ClauseResult(con.clause, ents[con.entity]).err, con |-> con, log |-> log]
    ELSE LET val == ClauseResult(con.clause, ents[con.entity]).val
             set == SetSatisfied(con, c, val, Append(log, <<"check", c, val>>))
         IN [err |-> Ok, con |-> set.con, log |-> set.log]

\* _Constraint.check on constraint c, given all entities; a clause that
\* returns is recorded as <<"check", c, result>>.
Check(con, c, ents, log) ==
    IF con.entity = None
      THEN [err |-> "Warning", con |-> con, log |-> log]
    ELSE IF ClauseResult(con.clause, ents[con.entity]).err # Ok
      THEN [err |-> ClauseResult(con.clause, ents[con.entity]).err, con |-> con, log |-> log]
    ELSE LET val == ClauseResult(con.clause, ents[con.entity]).val
             set == SetSatisfied(con, c, val, Append(log, <<"check", c, val>>))
         IN [err |-> Ok, con |-> set.con, log |-> set.log]

\* A link_to that re-links on every call.
LinkToOverwrite(con, e) == [con EXCEPT !.entity = e]

\* _Constraint.link_to: first write wins.
LinkTo(con, e) ==
    IF con.entity = None THEN [con EXCEPT !.entity = e] ELSE con

\* An add_constraint that checks without appending.
AddConstraintNoAppend(ents, cons, e, c, log) ==
    [err |-> Check(cons[c], c, ents, log).err, ents |-> ents,
     cons |-> [cons EXCEPT ![c] = Check(cons[c], c, ents, log).con],
     log |-> Check(cons[c], c, ents, log).log]

\* _Entity.add_constraint: append, then check; the append stays when the
\* check raises.
AddConstraint(ents, cons, e, c, log) ==
    LET appended == [ents EXCEPT ![e].constraints = Append(@, c)]
        checked == Check(cons[c], c, appended, log)
    IN [err |-> checked.err, ents |-> appended,
        cons |-> [cons EXCEPT ![c] = checked.con], log |-> checked.log]

\* list.remove: the first occurrence goes.
RECURSIVE ListRemove(_, _)
ListRemove(list, x) ==
    IF list = <<>> THEN <<>>
    ELSE IF Head(list) = x THEN Tail(list)
    ELSE <<Head(list)>> \o ListRemove(Tail(list), x)

InList(list, x) == \E i \in 1..Len(list) : list[i] = x

\* ---------------------------------------------------------------- Factory
\* A register_entity that replaces the schema of a registered identifier.
FactoryRegisterEntityOverwrite(em, identifier, attribute_map) ==
    Put(em, identifier, attribute_map)

\* Factory.register_entity: the first registration of an identifier wins.
FactoryRegisterEntity(em, identifier, attribute_map) ==
    IF identifier \notin DOMAIN em THEN Put(em, identifier, attribute_map) ELSE em

\* Factory.register_constraint: refuses an unregistered entity type.
FactoryRegisterConstraint(em, cm, identifier, entity_type) ==
    IF entity_type \notin DOMAIN em THEN [err |-> "AssertionError", cm |-> cm]
    ELSE IF identifier \notin DOMAIN cm THEN [err |-> Ok, cm |-> Put(cm, identifier, entity_type)]
    ELSE [err |-> Ok, cm |-> cm]

\* A create_entity loop that stores the source's pairs without __setitem__.
RECURSIVE PopulateUnchecked(_, _)
PopulateUnchecked(ent, obj) ==
    IF obj = <<>> THEN [err |-> Ok, ent |-> ent]
    ELSE PopulateUnchecked([ent EXCEPT !.dict = Put(@, Head(obj)[1], Head(obj)[2])], Tail(obj))

\* The loop of Factory.create_entity over the source mapping: entity[p] =
\* obj[p] for each key in order, stopping at the first raise.
RECURSIVE Populate(_, _)
Populate(ent, obj) ==
    IF obj = <<>> THEN [err |-> Ok, ent |-> ent]
    ELSE IF SetAttr(ent, Head(obj)[1], Head(obj)[2]).err # Ok
      THEN SetAttr(ent, Head(obj)[1], Head(obj)[2])
    ELSE Populate(SetAttr(ent, Head(obj)[1], Head(obj)[2]).ent, Tail(obj))

\* A create_entity that builds an entity of an unregistered type, with an
\* empty schema.
FactoryCreateEntityAnyType(em, identifier, obj) ==
    IF identifier \in DOMAIN em
      THEN Populate(NewEntity(identifier, em[identifier]), obj)
      ELSE Populate(NewEntity(identifier, EmptyDict), obj)

\* Factory.create_entity.
FactoryCreateEntity(em, identifier, obj) ==
    IF identifier \in DOMAIN em
      THEN Populate(NewEntity(identifier, em[identifier]), obj)
      ELSE [err |-> "AttributeError", ent |-> NewEntity(identifier, EmptyDict)]

\* Factory.create_constraint.
FactoryCreateConstraint(cm, identifier, clause) ==
    IF identifier \in DOMAIN cm
      THEN [err |-> Ok, con |-> NewConstraint(identifier, clause)]
      ELSE [err |-> "AttributeError", con |-> NewConstraint(identifier, clause)]

\* A link without the companion-type test.
LinkPairNoTest(cm, ents, cons, c, e) ==
    LET linked == [cons EXCEPT ![c] = LinkTo(cons[c], e)]
        added == AddConstraint(ents, linked, e, c, <<>>)
        again == Check(added.cons[c], c, added.ents, added.log)
    IN IF added.err # Ok
         THEN [err |-> added.err, ents |-> added.ents, cons |-> added.cons, log |-> added.log]
         ELSE [err |-> again.err, ents |-> added.ents,
               cons |-> [added.cons EXCEPT ![c] = again.con], log |-> again.log]

\* The body of Factory.link once a is known to be a constraint c and b an
\* entity e: the companion-type test, link_to, add_constraint, check.
LinkPair(cm, ents, cons, c, e) ==
    IF cm[cons[c].identifier] # ents[e].identifier
      THEN [err |-> "AttributeError", ents |-> ents, cons |-> cons, log |-> <<>>]
    ELSE LET linked == [cons EXCEPT ![c] = LinkTo(cons[c], e)]
             added == AddConstraint(ents, linked, e, c, <<>>)
             again == Check(added.cons[c], c, added.ents, added.log)
         IN IF added.err # Ok
              THEN [err |-> added.err, ents |-> added.ents, cons |-> added.cons, log |-> added.log]
              ELSE [err |-> again.err, ents |-> added.ents,
                    cons |-> [added.cons EXCEPT ![c] = again.con], log |-> again.log]

\* ---------------------------------------------------------------- Graph
\* Graph.add of a constraint: inserted first, refused afterwards when it is
\* unlinked, and only then is its entity inserted.
GraphAddConstraint(ges, gcs, cons, c) ==
    IF cons[c].entity = None
      THEN [err |-> "AssertionError", ges |-> ges, gcs |-> gcs \cup {c}]
      ELSE [err |-> Ok, ges |-> ges \cup {cons[c].entity}, gcs |-> gcs \cup {c}]

\* The loop of Graph.add over an entity's constraints list, stopping at the
\* first raise.
RECURSIVE GraphAddEach(_, _, _, _)
GraphAddEach(ges, gcs, cons, list) ==
    IF list = <<>> THEN [err |-> Ok, ges |-> ges, gcs |-> gcs]
    ELSE IF GraphAddConstraint(ges, gcs, cons, Head(list)).err # Ok
      THEN GraphAddConstraint(ges, gcs, cons, Head(list))
    ELSE GraphAddEach(GraphAddConstraint(ges, gcs, cons, Head(list)).ges,
                      GraphAddConstraint(ges, gcs, cons, Head(list)).gcs, cons, Tail(list))

\* An add of an entity that leaves its constraints out.
GraphAddEntityOnly(ges, gcs, ents, cons, e) ==
    [err |-> Ok, ges |-> ges \cup {e}, gcs |-> gcs]

\* Graph.add of an entity.
GraphAddEntity(ges, gcs, ents, cons, e) ==
    GraphAddEach(ges \cup {e}, gcs, cons, ents[e].constraints)

\* Graph.remove of a constraint: set.remove raises on a missing element.
GraphRemoveConstraint(gcs, c) ==
    IF c \in gcs THEN [err |-> Ok, gcs |-> gcs \ {c}] ELSE [err |-> "KeyError", gcs |-> gcs]

\* The loop of Graph.remove over an entity's constraints list, stopping at
\* the first raise.
RECURSIVE GraphRemoveEach(_, _)
GraphRemoveEach(gcs, list) ==
    IF list = <<>> THEN [err |-> Ok, gcs |-> gcs]
    ELSE IF GraphRemoveConstraint(gcs, Head(list)).err # Ok
      THEN GraphRemoveConstraint(gcs, Head(list))
    ELSE GraphRemoveEach(GraphRemoveConstraint(gcs, Head(list)).gcs, Tail(list))

\* Graph.remove of an entity.
GraphRemoveEntity(ges, gcs, ents, e) ==
    IF e \notin ges THEN [err |-> "KeyError", ges |-> ges, gcs |-> gcs]
    ELSE [err |-> GraphRemoveEach(gcs, ents[e].constraints).err, ges |-> ges \ {e},
          gcs |-> GraphRemoveEach(gcs, ents[e].constraints).gcs]

\* Graph.__contains__ for an entity and for a constraint.
ContainsEntity(e) == e \in g_entities
ContainsConstraint(c) == c \in g_constraints

\* ---------------------------------------------------------------- observation
\* The call just made: its name, its entity and constraint arguments (or
\* results), its other arguments, and the exception class it raised.
Call(op, e, c, arg, err) == [op |-> op, e |-> e, c |-> c, arg |-> arg, err |-> err]

\* The callbacks a trace records for constraint c, in order.
Callbacks(log, c) == SelectSeq(log, LAMBDA ev : ev[1] = "cb" /\ ev[2] = c)

\* The run of consecutive check() calls of one constraint whose clause gave
\* the same result: that result, and the callbacks made during the run
\* (counted up to MaxFires).  satisfy() and fail() end the run.
NoRun == [res |-> "none", fires |-> 0]
RunStep(rn, ev) ==
    IF ev[1] = "check"
      THEN IF rn.res = ToString(ev[3]) THEN rn ELSE [res |-> ToString(ev[3]), fires |-> 0]
    ELSE IF ev[1] = "cb"
      THEN [rn EXCEPT !.fires = IF @ < MaxFires THEN @ + 1 ELSE @]
    ELSE NoRun
RECURSIVE RunAfter(_, _, _)
RunAfter(rn, log, c) ==
    IF log = <<>> THEN rn
    ELSE IF Head(log)[2] = c THEN RunAfter(RunStep(rn, Head(log)), Tail(log), c)
    ELSE RunAfter(rn, Tail(log), c)
RunsAfter(runs, log) == [c \in DOMAIN runs |-> RunAfter(runs[c], log, c)]

EntityIds == 1..Len(entities)
ConstraintIds == 1..Len(constraints)

\* The source mappings handed to create_entity: None or empty, or up to
\* MaxSource of these pairs with distinct keys, in the mapping's iteration
\* order.  The pairs hold a value of the right and of the wrong type, and a
\* key that one schema lacks and that the other has but cannot store.
SourcePairs ==
    {<<"name", [t |-> "str", v |-> "A"]>>, <<"units", [t |-> "int", v |-> "1"]>>,
     <<"units", [t |-> "str", v |-> "A"]>>, <<"identifier", [t |-> "str", v |-> "A"]>>}
RECURSIVE SourcesOfLen(_)
SourcesOfLen(n) ==
    IF n = 0 THEN {<<>>}
    ELSE {Append(s, p) : s \in {x \in SourcesOfLen(n - 1) : Len(x) = n - 1}, p \in SourcePairs}
             \cup SourcesOfLen(n - 1)
Sources ==
    {s \in SourcesOfLen(MaxSource) : \A i, j \in 1..Len(s) : i # j => s[i][1] # s[j][1]}

\* ---------------------------------------------------------------- initial state
\* Factory() and Graph(name, factory): empty registries, empty sets, no
\* object created yet.
Init ==
    /\ entity_map = EmptyDict
    /\ constraint_map = EmptyDict
    /\ entities = <<>>
    /\ constraints = <<>>
    /\ g_entities = {}
    /\ g_constraints = {}
    /\ last = Call("init", None, None, <<>>, Ok)
    /\ fired = <<>>
    /\ run = <<>>
    /\ calls = 0

\* One more call is made, within the bound on the length of a run.
Tick == calls < MaxCalls /\ calls' = calls + 1

\* ---------------------------------------------------------------- Factory calls
RegisterEntity(identifier, attribute_map) ==
    /\ Tick
    /\ entity_map' = FactoryRegisterEntity(entity_map, identifier, attribute_map)
    /\ last' = Call("register_entity", None, None, <<identifier, attribute_map>>, Ok)
    /\ fired' = <<>>
    /\ UNCHANGED <<constraint_map, entities, constraints, g_entities, g_constraints, run>>

RegisterConstraint(identifier, entity_type) ==
    /\ Tick
    /\ constraint_map' =
          FactoryRegisterConstraint(entity_map, constraint_map, identifier, entity_type).cm
    /\ last' = Call("register_constraint", None, None, <<identifier, entity_type>>,
                    FactoryRegisterConstraint(entity_map, constraint_map, identifier, entity_type).err)
    /\ fired' = <<>>
    /\ UNCHANGED <<entity_map, entities, constraints, g_entities, g_constraints, run>>

\* Whether create_entity was given anything to copy: obj is None or empty,
\* or a mapping with keys.
SourceKind(obj) == IF obj = <<>> THEN "none" ELSE "source"

\* factory.create_entity(identifier, obj).
CreateEntity(identifier, obj) ==
    LET made == FactoryCreateEntity(entity_map, identifier, obj)
    IN /\ Tick
       /\ Len(entities) < MaxEntities
       /\ entities' = IF made.err = Ok THEN Append(entities, made.ent) ELSE entities
       /\ last' = Call("create_entity", IF made.err = Ok THEN Len(entities) + 1 ELSE None,
                       None, <<identifier, SourceKind(obj)>>, made.err)
       /\ fired' = <<>>
       /\ UNCHANGED <<entity_map, constraint_map, constraints, g_entities, g_constraints, run>>

CreateConstraint(identifier, clause) ==
    LET made == FactoryCreateConstraint(constraint_map, identifier, clause)
    IN /\ Tick
       /\ Len(constraints) < MaxConstraints
       /\ constraints' = IF made.err = Ok THEN Append(constraints, made.con) ELSE constraints
       /\ run' = IF made.err = Ok THEN Append(run, NoRun) ELSE run
       /\ last' = Call("create_constraint", None,
                       IF made.err = Ok THEN Len(constraints) + 1 ELSE None, <<identifier>>, made.err)
       /\ fired' = <<>>
       /\ UNCHANGED <<entity_map, constraint_map, entities, g_entities, g_constraints>>

\* Factory.link(a, b): a and b are objects of either kind, <<"c", i>> a
\* constraint and <<"e", j>> an entity.  The constraint is a when a is one,
\* else b; the entity is the other argument; assert_params refuses
\* anything but a constraint with an entity.
Objects == {<<"c", c>> : c \in ConstraintIds} \cup {<<"e", e>> : e \in EntityIds}
LinkConstraintArg(a, b) == IF a[1] = "c" THEN a ELSE b
LinkEntityArg(a, b) == IF LinkConstraintArg(a, b) = b /\ a[1] # "c" THEN a ELSE b

Link(a, b) ==
    /\ Tick
    /\ LET con == LinkConstraintArg(a, b)
           ent == LinkEntityArg(a, b)
       IN IF con[1] # "c" \/ ent[1] # "e"
            THEN /\ last' = Call("link", None, None, <<a[1], b[1]>>, "TypeError")
                 /\ fired' = <<>>
                 /\ UNCHANGED <<entity_map, constraint_map, entities, constraints,
                                g_entities, g_constraints, run>>
            ELSE \E out \in {LinkPair(constraint_map, entities, constraints, con[2], ent[2])} :
                    /\ Len(entities[ent[2]].constraints) < MaxLinks
                    /\ entities' = out.ents
                    /\ constraints' = out.cons
                    /\ last' = Call("link", ent[2], con[2], <<a[1], b[1]>>, out.err)
                    /\ fired' = out.log
                    /\ run' = RunsAfter(run, out.log)
                    /\ UNCHANGED <<entity_map, constraint_map, g_entities, g_constraints>>

\* ---------------------------------------------------------------- _Entity calls
\* The constraints of a list checked in order, whatever each check raises.
RECURSIVE CheckEach(_, _, _, _)
CheckEach(ents, cons, list, log) ==
    IF list = <<>> THEN [cons |-> cons, log |-> log]
    ELSE CheckEach(ents,
                   [cons EXCEPT ![Head(list)] = Check(cons[Head(list)], Head(list), ents, log).con],
                   Tail(list), Check(cons[Head(list)], Head(list), ents, log).log)

\* An entity[key] = value that re-checks the entity's constraints after a
\* successful store.
SetThenCheck(e, key, value) ==
    \E stored \in {SetAttr(entities[e], key, value)} :
       \E out \in {CheckEach([entities EXCEPT ![e] = stored.ent], constraints,
                             IF stored.err = Ok THEN entities[e].constraints ELSE <<>>, <<>>)} :
          /\ Tick
          /\ entities' = [entities EXCEPT ![e] = stored.ent]
          /\ constraints' = out.cons
          /\ last' = Call("set", e, None, <<key, value>>, stored.err)
          /\ fired' = out.log
          /\ run' = RunsAfter(run, out.log)
          /\ UNCHANGED <<entity_map, constraint_map, g_entities, g_constraints>>

\* entity[key] = value.
Set(e, key, value) ==
    /\ Tick
    /\ entities' = [entities EXCEPT ![e] = SetAttr(@, key, value).ent]
    /\ last' = Call("set", e, None, <<key, value>>, SetAttr(entities[e], key, value).err)
    /\ fired' = <<>>
    /\ UNCHANGED <<entity_map, constraint_map, constraints, g_entities, g_constraints, run>>

\* entity.add_constraint(constraint), called directly.
AddConstraintCall(e, c) ==
    LET out == AddConstraint(entities, constraints, e, c, <<>>)
    IN /\ Tick
       /\ Len(entities[e].constraints) < MaxLinks
       /\ entities' = out.ents
       /\ constraints' = out.cons
       /\ last' = Call("add_constraint", e, c, <<>>, out.err)
       /\ fired' = out.log
       /\ run' = RunsAfter(run, out.log)
       /\ UNCHANGED <<entity_map, constraint_map, g_entities, g_constraints>>

\* entity.remove_constraint(constraint).
RemoveConstraintCall(e, c) ==
    /\ Tick
    /\ entities' = [entities EXCEPT ![e].constraints =
                       IF InList(@, c) THEN ListRemove(@, c) ELSE @]
    /\ last' = Call("remove_constraint", e, c, <<>>, Ok)
    /\ fired' = <<>>
    /\ UNCHANGED <<entity_map, constraint_map, constraints, g_entities, g_constraints, run>>

\* ---------------------------------------------------------------- _Constraint calls
\* constraint.satisfy() and constraint.fail(): the setter with a constant.
Force(c, value) ==
    LET set == SetSatisfied(constraints[c], c, value, <<<<"set", c, value>>>>)
    IN /\ Tick
       /\ constraints' = [constraints EXCEPT ![c] = set.con]
       /\ last' = Call(IF value THEN "satisfy" ELSE "fail", None, c, <<>>, Ok)
       /\ fired' = set.log
       /\ run' = RunsAfter(run, set.log)
       /\ UNCHANGED <<entity_map, constraint_map, entities, g_entities, g_constraints>>

Satisfy(c) == Force(c, TRUE)

Fail(c) == Force(c, FALSE)

\* constraint.check().
CheckCall(c) ==
    LET out == Check(constraints[c], c, entities, <<>>)
    IN /\ Tick
       /\ constraints' = [constraints EXCEPT ![c] = out.con]
       /\ last' = Call("check", None, c, <<>>, out.err)
       /\ fired' = out.log
       /\ run' = RunsAfter(run, out.log)
       /\ UNCHANGED <<entity_map, constraint_map, entities, g_entities, g_constraints>>

\* constraint.link_to(entity), called directly.
LinkToCall(c, e) ==
    /\ Tick
    /\ constraints' = [constraints EXCEPT ![c] = LinkTo(@, e)]
    /\ last' = Call("link_to", e, c, <<>>, Ok)
    /\ fired' = <<>>
    /\ UNCHANGED <<entity_map, constraint_map, entities, g_entities, g_constraints, run>>

\* ---------------------------------------------------------------- Graph calls
\* graph.add(obj) and graph.remove(obj), obj of either kind.
Add(obj) ==
    LET out == IF obj[1] = "e"
                 THEN GraphAddEntity(g_entities, g_constraints, entities, constraints, obj[2])
                 ELSE GraphAddConstraint(g_entities, g_constraints, constraints, obj[2])
    IN /\ Tick
       /\ g_entities' = out.ges
       /\ g_constraints' = out.gcs
       /\ last' = Call("add", IF obj[1] = "e" THEN obj[2] ELSE None,
                       IF obj[1] = "c" THEN obj[2] ELSE None, <<>>, out.err)
       /\ fired' = <<>>
       /\ UNCHANGED <<entity_map, constraint_map, entities, constraints, run>>

Remove(obj) ==
    LET out == IF obj[1] = "e"
                 THEN GraphRemoveEntity(g_entities, g_constraints, entities, obj[2])
                 ELSE [err |-> GraphRemoveConstraint(g_constraints, obj[2]).err, ges |-> g_entities,
                       gcs |-> GraphRemoveConstraint(g_constraints, obj[2]).gcs]
    IN /\ Tick
       /\ g_entities' = out.ges
       /\ g_constraints' = out.gcs
       /\ last' = Call("remove", IF obj[1] = "e" THEN obj[2] ELSE None,
                       IF obj[1] = "c" THEN obj[2] ELSE None, <<>>, out.err)
       /\ fired' = <<>>
       /\ UNCHANGED <<entity_map, constraint_map, entities, constraints, run>>

\* The Graph's passthroughs to its Factory.
GraphRegisterEntity(identifier, attribute_map) ==
    /\ Tick
    /\ entity_map' = FactoryRegisterEntity(entity_map, identifier, attribute_map)
    /\ last' = Call("graph.register_entity", None, None, <<identifier, attribute_map>>, Ok)
    /\ fired' = <<>>
    /\ UNCHANGED <<constraint_map, entities, constraints, g_entities, g_constraints, run>>

GraphRegisterConstraint(identifier, entity_type) ==
    /\ Tick
    /\ constraint_map' =
          FactoryRegisterConstraint(entity_map, constraint_map, identifier, entity_type).cm
    /\ last' = Call("graph.register_constraint", None, None, <<identifier, entity_type>>,
                    FactoryRegisterConstraint(entity_map, constraint_map, identifier, entity_type).err)
    /\ fired' = <<>>
    /\ UNCHANGED <<entity_map, entities, constraints, g_entities, g_constraints, run>>

\* Graph.create_entity: create, then add the new entity.
GraphCreateEntity(identifier, obj) ==
    LET made == FactoryCreateEntity(entity_map, identifier, obj)
        e == Len(entities) + 1
        added == GraphAddEntity(g_entities, g_constraints, Append(entities, made.ent), constraints, e)
    IN /\ Tick
       /\ Len(entities) < MaxEntities
       /\ entities' = IF made.err = Ok THEN Append(entities, made.ent) ELSE entities
       /\ g_entities' = IF made.err = Ok THEN added.ges ELSE g_entities
       /\ g_constraints' = IF made.err = Ok THEN added.gcs ELSE g_constraints
       /\ last' = Call("graph.create_entity", IF made.err = Ok THEN e ELSE None, None,
                       <<identifier>>, IF made.err = Ok THEN added.err ELSE made.err)
       /\ fired' = <<>>
       /\ UNCHANGED <<entity_map, constraint_map, constraints, run>>

\* Graph.create_constraint: create; with a link_to entity, link and then
\* add.  A constraint whose link raised before it was appended to the
\* entity's list is referenced by nothing and is not kept.
GraphCreateConstraint(identifier, clause, link_to) ==
    /\ Tick
    /\ Len(constraints) < MaxConstraints
    /\ LET made == FactoryCreateConstraint(constraint_map, identifier, clause)
           c == Len(constraints) + 1
           cons == Append(constraints, made.con)
       IN IF made.err # Ok
            THEN /\ last' = Call("graph.create_constraint", None, None, <<identifier>>, made.err)
                 /\ fired' = <<>>
                 /\ UNCHANGED <<entity_map, constraint_map, entities, constraints,
                                g_entities, g_constraints, run>>
          ELSE IF link_to = None
            THEN /\ constraints' = cons
                 /\ run' = Append(run, NoRun)
                 /\ last' = Call("graph.create_constraint", None, c, <<identifier>>, Ok)
                 /\ fired' = <<>>
                 /\ UNCHANGED <<entity_map, constraint_map, entities, g_entities, g_constraints>>
          ELSE \E linked \in {LinkPair(constraint_map, entities, cons, c, link_to)} :
                 IF linked.err # Ok /\ linked.ents = entities
                   THEN /\ last' = Call("graph.create_constraint", link_to, None,
                                        <<identifier>>, linked.err)
                        /\ fired' = <<>>
                        /\ UNCHANGED <<entity_map, constraint_map, entities, constraints,
                                       g_entities, g_constraints, run>>
                 ELSE IF linked.err # Ok
                   THEN /\ Len(entities[link_to].constraints) < MaxLinks
                        /\ entities' = linked.ents
                        /\ constraints' = linked.cons
                        /\ run' = RunsAfter(Append(run, NoRun), linked.log)
                        /\ last' = Call("graph.create_constraint", link_to, c,
                                        <<identifier>>, linked.err)
                        /\ fired' = linked.log
                        /\ UNCHANGED <<entity_map, constraint_map, g_entities, g_constraints>>
                 ELSE \E added \in {GraphAddConstraint(g_entities, g_constraints,
                                                       linked.cons, c)} :
                        /\ Len(entities[link_to].constraints) < MaxLinks
                        /\ entities' = linked.ents
                        /\ constraints' = linked.cons
                        /\ run' = RunsAfter(Append(run, NoRun), linked.log)
                        /\ g_entities' = added.ges
                        /\ g_constraints' = added.gcs
                        /\ last' = Call("graph.create_constraint", link_to, c,
                                        <<identifier>>, added.err)
                        /\ fired' = linked.log
                        /\ UNCHANGED <<entity_map, constraint_map>>

\* ---------------------------------------------------------------- specification
\* Every call on the Factory, the objects and the Graph.
Next ==
    \/ \E identifier \in Idents, attribute_map \in Schemas :
          RegisterEntity(identifier, attribute_map)
    \/ \E identifier \in CIdents, entity_type \in Idents :
          RegisterConstraint(identifier, entity_type)
    \/ \E identifier \in Idents, obj \in Sources : CreateEntity(identifier, obj)
    \/ \E identifier \in CIdents, clause \in Clauses : CreateConstraint(identifier, clause)
    \/ \E a \in Objects, b \in Objects : Link(a, b)
    \/ \E e \in EntityIds, key \in Keys, value \in Values : Set(e, key, value)
    \/ \E e \in EntityIds, c \in ConstraintIds : AddConstraintCall(e, c)
    \/ \E e \in EntityIds, c \in ConstraintIds : RemoveConstraintCall(e, c)
    \/ \E c \in ConstraintIds : Satisfy(c)
    \/ \E c \in ConstraintIds : Fail(c)
    \/ \E c \in ConstraintIds : CheckCall(c)
    \/ \E c \in ConstraintIds, e \in EntityIds : LinkToCall(c, e)
    \/ \E obj \in Objects : Add(obj)
    \/ \E obj \in Objects : Remove(obj)
    \/ \E identifier \in Idents, attribute_map \in Schemas :
          GraphRegisterEntity(identifier, attribute_map)
    \/ \E identifier \in CIdents, entity_type \in Idents :
          GraphRegisterConstraint(identifier, entity_type)
    \/ \E identifier \in Idents, obj \in Sources : GraphCreateEntity(identifier, obj)
    \/ \E identifier \in CIdents, clause \in Clauses, link_to \in EntityIds \cup {None} :
          GraphCreateConstraint(identifier, clause, link_to)

Spec == Init /\ [][Next]_vars

\* The state after the registrations of the README scenario: both entity
\* types and the constraint type tied to "subject" are registered.
InitRegistered ==
    /\ entity_map = [x \in Idents |-> IF x = "subject" THEN SubjectMap ELSE PersonMap]
    /\ constraint_map = [x \in CIdents |-> "subject"]
    /\ entities = <<>>
    /\ constraints = <<>>
    /\ g_entities = {}
    /\ g_constraints = {}
    /\ last = Call("init", None, None, <<>>, Ok)
    /\ fired = <<>>
    /\ run = <<>>
    /\ calls = 0

\* Registration, creation and attribute storage, from the empty Factory.
NextFactory ==
    \/ \E identifier \in Idents, attribute_map \in Schemas :
          RegisterEntity(identifier, attribute_map)
    \/ \E identifier \in CIdents, entity_type \in Idents :
          RegisterConstraint(identifier, entity_type)
    \/ \E identifier \in Idents, attribute_map \in Schemas :
          GraphRegisterEntity(identifier, attribute_map)
    \/ \E identifier \in CIdents, entity_type \in Idents :
          GraphRegisterConstraint(identifier, entity_type)
    \/ \E identifier \in Idents, obj \in Sources : CreateEntity(identifier, obj)
    \/ \E identifier \in CIdents, clause \in Clauses : CreateConstraint(identifier, clause)
    \/ \E e \in EntityIds, key \in Keys, value \in Values : Set(e, key, value)

SpecFactory == Init /\ [][NextFactory]_vars

\* Linking and constraint evaluation, once the types are registered.
NextLink ==
    \/ \E identifier \in Idents, obj \in {<<>>} : CreateEntity(identifier, obj)
    \/ \E identifier \in CIdents, clause \in Clauses : CreateConstraint(identifier, clause)
    \/ \E a \in Objects, b \in Objects : Link(a, b)
    \/ \E e \in EntityIds, key \in {"name"}, value \in Values : Set(e, key, value)
    \/ \E c \in ConstraintIds : Satisfy(c)
    \/ \E c \in ConstraintIds : Fail(c)
    \/ \E c \in ConstraintIds : CheckCall(c)
    \/ \E c \in ConstraintIds, e \in EntityIds : LinkToCall(c, e)
    \/ \E e \in EntityIds, c \in ConstraintIds : AddConstraintCall(e, c)
    \/ \E e \in EntityIds, c \in ConstraintIds : RemoveConstraintCall(e, c)

SpecLink == InitRegistered /\ [][NextLink]_vars

\* The sources the graph's entities are created from: none, or a name.
GraphSources == {<<>>, <<<<"name", StrA>>>>}

\* Graph membership, once the types are registered.  Objects are created
\* through the Graph; Graph.remove takes them out of it again.
NextGraph ==
    \/ \E identifier \in Idents, obj \in GraphSources : GraphCreateEntity(identifier, obj)
    \/ \E identifier \in CIdents, clause \in Clauses, link_to \in EntityIds \cup {None} :
          GraphCreateConstraint(identifier, clause, link_to)
    \/ \E a \in Objects, b \in Objects : Link(a, b)
    \/ \E obj \in Objects : Add(obj)
    \/ \E obj \in Objects : Remove(obj)

SpecGraph == InitRegistered /\ [][NextGraph]_vars

\* ---------------------------------------------------------------- error names
\* The specification's error names, as the exception classes the code raises.
UnknownAttribute == "AttributeError"
TypeMismatch == "TypeError"
NotLinked == "Warning"
UnregisteredType == "AttributeError"
UnregisteredEntityType == "AssertionError"
IncompatibleLink == "AttributeError"
UnlinkedConstraint == "AssertionError"

\* ---------------------------------------------------------------- claims
\* C1: after any sequence of Graph.add and Graph.remove calls, failed ones
\* included, every constraint in the graph's constraint set has its linked
\* entity in the graph's entity set.
C1_LinkedEntityInGraph ==
    \A c \in g_constraints : constraints[c].entity \in g_entities

\* C2: Graph.add of an unlinked constraint fails with UnlinkedConstraint and
\* does not insert it: every constraint in the constraint set has a non-null
\* linkedEntity.
C2_NoUnlinkedConstraintInGraph ==
    /\ \A c \in g_constraints : constraints[c].entity # None
    /\ (last.op = "add" /\ last.c # None /\ constraints[last.c].entity = None)
          => last.err = UnlinkedConstraint /\ last.c \notin g_constraints

\* C3: in every call, the callback of a constraint runs if and only if the
\* call changes `satisfied`, exactly once and with the new value; a call that
\* re-sets the same value invokes no callback.
C3_CallbackIffFlip ==
    [][\A c \in DOMAIN constraints :
          Callbacks(fired', c) =
             IF constraints'[c].satisfied # constraints[c].satisfied
               THEN <<<<"cb", c, constraints'[c].satisfied>>>>
               ELSE <<>>]_vars

\* C3 witness: fail() has just flipped a satisfied constraint and its
\* callback ran once, with false.
C3_Witness ==
    /\ last.op = "fail"
    /\ ~constraints[last.c].satisfied
    /\ Callbacks(fired, last.c) = <<<<"cb", last.c, FALSE>>>>

\* C4: in a run of consecutive check() calls whose clause returns the same
\* result the callback runs at most once in total, and every check() after
\* the first of the run leaves `satisfied` unchanged and fires nothing.
C4_OneCallbackPerRun ==
    [][\A c \in DOMAIN constraints :
          /\ run'[c].fires <= 1
          /\ (last'.op = "check" /\ last'.c = c /\ last'.err = Ok /\ run[c].res = run'[c].res)
                => /\ constraints'[c].satisfied = constraints[c].satisfied
                   /\ Callbacks(fired', c) = <<>>]_vars

\* C4 witness: a check() that is not the first of its run has returned, the
\* run's one callback having been made by an earlier check.
C4_Witness ==
    /\ last.op = "check"
    /\ last.err = Ok
    /\ Callbacks(fired, last.c) = <<>>
    /\ run[last.c] = [res |-> "TRUE", fires |-> 1]

\* C5: a successful Factory.link of a fresh constraint c with entity e, in
\* either argument order, leaves c linked to e, c in e's constraints list,
\* `satisfied` equal to the clause's result, and the callback run exactly
\* once (with true) when the clause is true and not at all when it is false.
C5_LinkOfFreshConstraint ==
    [][\A c \in DOMAIN constraints, e \in DOMAIN entities :
          (/\ last'.op = "link" /\ last'.err = Ok /\ last'.c = c /\ last'.e = e
           /\ constraints[c] = NewConstraint(constraints[c].identifier, constraints[c].clause))
             => /\ constraints'[c].entity = e
                /\ InList(entities'[e].constraints, c)
                /\ ClauseResult(constraints'[c].clause, entities'[e]).err = Ok
                /\ constraints'[c].satisfied = ClauseResult(constraints'[c].clause, entities'[e]).val
                /\ Callbacks(fired', c) =
                      IF ClauseResult(constraints'[c].clause, entities'[e]).val
                        THEN <<<<"cb", c, TRUE>>>> ELSE <<>>]_vars

\* C5 witness: link(entity, constraint) has returned with the clause true:
\* two evaluations, one callback.
C5_Witness ==
    /\ last.op = "link"
    /\ last.err = Ok
    /\ last.arg = <<"e", "c">>
    /\ fired = <<<<"check", last.c, TRUE>>, <<"cb", last.c, TRUE>>, <<"check", last.c, TRUE>>>>
    /\ constraints[last.c].entity = last.e
    /\ entities[last.e].constraints = <<last.c>>

\* C6: a constraint's linkedEntity is set at most once: once non-null it
\* never changes, and a repeated link_to neither re-links nor raises.
C6_LinkedEntitySetOnce ==
    [][/\ \A c \in DOMAIN constraints :
             constraints[c].entity # None => constraints'[c].entity = constraints[c].entity
       /\ last'.op = "link_to" => last'.err = Ok]_vars

\* C6 witness: link_to was called with a second entity and the first is kept.
C6_Witness ==
    /\ last.op = "link_to"
    /\ last.err = Ok
    /\ constraints[last.c].entity # None
    /\ constraints[last.c].entity # last.e

\* C7: a Factory.link call that fails, for whatever reason, leaves a
\* constraint that was unlinked still unlinked, and adds nothing to an
\* entity's constraints list.
C7_FailedLinkChangesNothing ==
    [][(last'.op = "link" /\ last'.err # Ok)
          => /\ \A c \in DOMAIN constraints :
                   constraints[c].entity = None => constraints'[c].entity = None
             /\ \A e \in DOMAIN entities :
                   entities'[e].constraints = entities[e].constraints]_vars

\* C8: Factory.link of a constraint with an entity whose type is not the
\* constraint's registered companion type fails with IncompatibleLink and
\* links nothing; so a constraint that Factory.link links is linked to an
\* entity of its companion type.
C8_LinkOnlyCompanionType ==
    [][\A c \in DOMAIN constraints, e \in DOMAIN entities :
          (last'.op = "link" /\ last'.c = c /\ last'.e = e)
             => /\ constraint_map[constraints[c].identifier] # entities[e].identifier
                     => /\ last'.err = IncompatibleLink
                        /\ constraints' = constraints
                        /\ entities' = entities
                /\ (constraints[c].entity = None /\ constraints'[c].entity # None)
                     => entities'[constraints'[c].entity].identifier
                           = constraint_map[constraints[c].identifier]]_vars

\* C8 witness: a link of a "subject" constraint with a "person" entity has
\* just been refused.
C8_Witness ==
    /\ last.op = "link"
    /\ last.err = IncompatibleLink
    /\ last.c # None
    /\ last.e # None
    /\ entities[last.e].identifier # constraint_map[constraints[last.c].identifier]
    /\ constraints[last.c].entity = None

\* C9 as stated: for every attribute k of the entity's schema, set(k, v)
\* with v of the expected type succeeds and get(k) then returns v; with v of
\* another type it fails with TypeMismatch; with a key outside the schema
\* it fails with UnknownAttribute.
C9_SetRoundTripAnyKey ==
    last.op = "set" =>
       LET ent == entities[last.e]
           key == last.arg[1]
           value == last.arg[2]
       IN IF key \notin DOMAIN ent.attribute_map THEN last.err = UnknownAttribute
          ELSE IF TypeOf(value) # ent.attribute_map[key] THEN last.err = TypeMismatch
          ELSE last.err = Ok /\ GetItem(ent, key) = [err |-> Ok, val |-> value]

\* C9 amended: the same for every schema attribute other than the reserved
\* names constraints, identifier and attribute_map; set on a reserved name
\* fails with AttributeError whatever the value, and stores nothing.
C9_SetRoundTrip ==
    last.op = "set" =>
       LET ent == entities[last.e]
           key == last.arg[1]
           value == last.arg[2]
       IN IF key \in protected
            THEN last.err = "AttributeError" /\ key \notin DOMAIN ent.dict
          ELSE IF key \notin DOMAIN ent.attribute_map THEN last.err = UnknownAttribute
          ELSE IF TypeOf(value) # ent.attribute_map[key] THEN last.err = TypeMismatch
          ELSE last.err = Ok /\ GetItem(ent, key) = [err |-> Ok, val |-> value]

\* C9 witness: a set of a schema attribute with a value of its type has
\* returned and get gives the value back.
C9_Witness ==
    /\ last.op = "set"
    /\ last.err = Ok
    /\ last.arg[1] \in DOMAIN entities[last.e].attribute_map
    /\ GetItem(entities[last.e], last.arg[1]) = [err |-> Ok, val |-> last.arg[2]]

\* C10: every key stored in an entity's attributes is a key of its schema
\* and the stored value's type is exactly the schema's type for that key,
\* whether the entity was populated by set or by create_entity from a source.
C10_AttributesMatchSchema ==
    \A e \in DOMAIN entities :
       \A key \in DOMAIN entities[e].dict :
          /\ key \in DOMAIN entities[e].attribute_map
          /\ TypeOf(entities[e].dict[key]) = entities[e].attribute_map[key]

\* C10 witness: create_entity has just returned an entity populated from a
\* source mapping with two keys.
C10_Witness ==
    /\ last.op = "create_entity"
    /\ last.err = Ok
    /\ DOMAIN entities[last.e].dict = {"name", "units"}

\* C11: a set that fails, with UnknownAttribute or with TypeMismatch, leaves
\* every stored attribute of the entity as it was, the previous value of the
\* targeted key included.
C11_FailedSetKeepsAttributes ==
    [][(last'.op = "set" /\ last'.err \in {UnknownAttribute, TypeMismatch})
          => /\ entities'[last'.e].dict = entities[last'.e].dict
             /\ entities' = entities]_vars

\* C11 witness: a set of a value of the wrong type on a key that already
\* holds a value has been refused, and the key still holds a value of the
\* schema's type.
C11_Witness ==
    /\ last.op = "set"
    /\ last.err = TypeMismatch
    /\ last.arg[1] \in DOMAIN entities[last.e].dict
    /\ entities[last.e].dict[last.arg[1]] # last.arg[2]

\* The registration calls, on the Factory or through the Graph.
EntityRegistrations == {"register_entity", "graph.register_entity"}
ConstraintRegistrations == {"register_constraint", "graph.register_constraint"}

\* Every entry of both registries is still there, unchanged, in the next state.
RegistriesKept ==
    /\ \A id \in DOMAIN entity_map :
          id \in DOMAIN entity_map' /\ entity_map'[id] = entity_map[id]
    /\ \A id \in DOMAIN constraint_map :
          id \in DOMAIN constraint_map' /\ constraint_map'[id] = constraint_map[id]

\* C12 as stated: no call removes or changes a registry entry, and every
\* registration call with an identifier that is already registered is a
\* silent no-op.
C12_RegisterOnceAlwaysSilent ==
    [][/\ RegistriesKept
       /\ (last'.op \in EntityRegistrations /\ last'.arg[1] \in DOMAIN entity_map)
             => last'.err = Ok /\ entity_map' = entity_map
       /\ (last'.op \in ConstraintRegistrations /\ last'.arg[1] \in DOMAIN constraint_map)
             => last'.err = Ok /\ constraint_map' = constraint_map]_vars

\* C12 amended: no call removes or changes a registry entry; a repeated
\* register_entity is a silent no-op; a repeated register_constraint is a
\* no-op that is silent when its entity type is registered and fails with
\* UnregisteredEntityType when it is not.
C12_RegisterOnce ==
    [][/\ RegistriesKept
       /\ (last'.op \in EntityRegistrations /\ last'.arg[1] \in DOMAIN entity_map)
             => last'.err = Ok /\ entity_map' = entity_map
       /\ (last'.op \in ConstraintRegistrations /\ last'.arg[1] \in DOMAIN constraint_map)
             => /\ constraint_map' = constraint_map
                /\ last'.err = IF last'.arg[2] \in DOMAIN entity_map
                                 THEN Ok ELSE UnregisteredEntityType]_vars

\* C12 witness: register_entity has returned for a registered identifier
\* with another schema than the stored one, which is kept.
C12_Witness ==
    /\ last.op \in EntityRegistrations
    /\ last.err = Ok
    /\ entity_map[last.arg[1]] # last.arg[2]

\* C13: create_entity and create_constraint of an identifier that was never
\* registered fail with UnregisteredType, create nothing and leave both
\* registries as they were; create_entity(id) of a registered identifier
\* returns a new entity with no attributes and no constraints, and
\* create_constraint of a registered one a new constraint that is unlinked
\* and not satisfied.
C13_CreateOnlyRegistered ==
    [][/\ last'.op = "create_entity" =>
            IF last'.arg[1] \notin DOMAIN entity_map
              THEN /\ last'.err = UnregisteredType
                   /\ last'.e = None
                   /\ entities' = entities /\ constraints' = constraints
                   /\ entity_map' = entity_map /\ constraint_map' = constraint_map
              ELSE last'.arg[2] = "none" =>
                      /\ last'.err = Ok
                      /\ last'.e = Len(entities) + 1
                      /\ Len(entities') = Len(entities) + 1
                      /\ entities'[last'.e].identifier = last'.arg[1]
                      /\ entities'[last'.e].dict = EmptyDict
                      /\ entities'[last'.e].constraints = <<>>
       /\ last'.op = "create_constraint" =>
            IF last'.arg[1] \notin DOMAIN constraint_map
              THEN /\ last'.err = UnregisteredType
                   /\ last'.c = None
                   /\ entities' = entities /\ constraints' = constraints
                   /\ entity_map' = entity_map /\ constraint_map' = constraint_map
              ELSE /\ last'.err = Ok
                   /\ last'.c = Len(constraints) + 1
                   /\ Len(constraints') = Len(constraints) + 1
                   /\ constraints'[last'.c].identifier = last'.arg[1]
                   /\ constraints'[last'.c].entity = None
                   /\ ~constraints'[last'.c].satisfied]_vars

\* C13 witness: create_entity of an identifier that is in no registry has
\* been refused, with another type registered and nothing created.
C13_Witness ==
    /\ last.op = "create_entity"
    /\ last.err = UnregisteredType
    /\ last.arg[1] \notin DOMAIN entity_map
    /\ DOMAIN entity_map # {}
    /\ entities = <<>>

\* C14: after a successful Graph.add of an entity, the entity is in the
\* entity set and every constraint of its list is in the constraint set;
\* after a successful Graph.add of a linked constraint, the constraint is in
\* the constraint set and its linked entity in the entity set; what was in
\* the graph before is still in it.
C14_AddIsTransitive ==
    [][(last'.op = "add" /\ last'.err = Ok)
          => /\ last'.e # None
                  => /\ last'.e \in g_entities'
                     /\ \A i \in 1..Len(entities[last'.e].constraints) :
                           entities[last'.e].constraints[i] \in g_constraints'
             /\ last'.c # None
                  => /\ last'.c \in g_constraints'
                     /\ constraints[last'.c].entity # None
                     /\ constraints[last'.c].entity \in g_entities'
             /\ g_entities \subseteq g_entities'
             /\ g_constraints \subseteq g_constraints']_vars

\* C14 witness: add of an entity that has a constraint has returned, with
\* the entity and the constraint both in the graph.
C14_Witness ==
    /\ last.op = "add"
    /\ last.err = Ok
    /\ last.e # None
    /\ entities[last.e].constraints # <<>>
    /\ last.e \in g_entities
    /\ \A i \in 1..Len(entities[last.e].constraints) :
          entities[last.e].constraints[i] \in g_constraints

\* C15: Graph.remove of an entity that is in the graph completes, whichever
\* of its constraints are in the constraint set, and afterwards the entity
\* is not in the entity set, no constraint of its list is in the constraint
\* set, and the lists and the constraints' links are as they were.
C15_RemoveEntityCompletes ==
    [][(last'.op = "remove" /\ last'.e # None /\ last'.e \in g_entities)
          => /\ last'.err = Ok
             /\ last'.e \notin g_entities'
             /\ \A i \in 1..Len(entities[last'.e].constraints) :
                   entities[last'.e].constraints[i] \notin g_constraints'
             /\ entities' = entities
             /\ constraints' = constraints]_vars

\* C16: the object that Graph.create_entity or Graph.create_constraint
\* returns, with or without a target entity, is in the graph when the call
\* returns: contains(result) is true.
C16_CreatedObjectInGraph ==
    /\ (last.op = "graph.create_entity" /\ last.err = Ok) => ContainsEntity(last.e)
    /\ (last.op = "graph.create_constraint" /\ last.err = Ok) => ContainsConstraint(last.c)

C18_SetDoesNotCheck ==
    [][/\ last'.op = "set" => (constraints' = constraints /\ fired' = <<>>)
       /\ \A c \in DOMAIN constraints :
             constraints'[c].satisfied # constraints[c].satisfied
                => \E i \in DOMAIN fired' :
                      fired'[i][2] = c /\ fired'[i][1] \in {"check", "set"}]_vars

\* C18 witness: a set has stored a value under which the clause of a linked
\* constraint no longer gives what `satisfied` says.
C18_Witness ==
    /\ last.op = "set"
    /\ last.err = Ok
    /\ \E c \in DOMAIN constraints :
          /\ constraints[c].entity = last.e
          /\ InList(entities[last.e].constraints, c)
          /\ ClauseResult(constraints[c].clause, entities[last.e]).err = Ok
          /\ ClauseResult(constraints[c].clause, entities[last.e]).val # constraints[c].satisfied

\* Every constraint in an entity's constraints list is linked to that entity.
BackReferencesAgree(ents, cons) ==
    \A e \in DOMAIN ents :
       \A i \in 1..Len(ents[e].constraints) : cons[ents[e].constraints[i]].entity = e

\* C19: a successful Factory.link keeps the back-references consistent, also
\* when it links an already-linked constraint to a second entity of the same
\* registered type: afterwards every constraint in an entity's constraints
\* list has that entity as its linkedEntity.
C19_LinkKeepsBackReferences ==
    [][(last'.op = "link" /\ last'.err = Ok /\ BackReferencesAgree(entities, constraints))
          => BackReferencesAgree(entities', constraints')]_vars

\* No constraint is twice in an entity's constraints list.
NoDuplicateLinks(ents) ==
    \A e \in DOMAIN ents :
       \A i, j \in 1..Len(ents[e].constraints) :
          i # j => ents[e].constraints[i] # ents[e].constraints[j]

\* C20: a Factory.link call, a repeated one on the same constraint and
\* entity included, leaves each constraint at most once in an entity's
\* constraints list.
C20_LinkAddsNoDuplicate ==
    [][(last'.op = "link" /\ NoDuplicateLinks(entities)) => NoDuplicateLinks(entities')]_vars

====
